---- MODULE Spec2Model ----
(***************************************************************************)
(* Model of the simulated annealing engine SA::findmin (src/src/sa.rs) and *)
(* of the strategies it calls: APF::accept (apf.rs), Method::neighbour     *)
(* (neighbour.rs), Schedule::cool (schedule.rs), Status::print (status.rs) *)
(* and utils::cast (utils.rs).                                             *)
(*                                                                         *)
(* Numbers.  Coordinates and objective values are integers.  A temperature *)
(* is the exact real (n/d) * ln 2 / ln lg, kept as the record              *)
(* [n, d, lg] with d > 0 and lg >= 2 (lg = 2 is a plain rational n/d), so  *)
(* that the three built-in schedules are computed without rounding.  The   *)
(* argument of exp() in the Metropolis test is the exact real              *)
(* (n/d) * ln lg / ln 2, kept the same way, and a positive real that only  *)
(* takes part in comparisons (exp(..), 1, the uniform sample) is kept as   *)
(* its natural logarithm.                                                  *)
(***************************************************************************)
EXTENDS Integers, Sequences, FiniteSets

VARIABLES
    self,         \* the SA struct: f, p_0, t_0, t_min, bounds, apf, neighbour, schedule, status
    pc,           \* position of findmin
    p, f,         \* current working solution
    best_p, best_f,
    t, k, diff,
    neighbour_p, neighbour_f,
    new_p, dim, s, \* Method::neighbour (Normal): point under construction, index, sample
    result,       \* what findmin returned
    evaluated,    \* history: the (point, value) pairs the objective returned
    calls,        \* history: calls made in the current iteration, in order
    draws,        \* history: draws taken from rng in the current iteration
    redraws,      \* history: rejected samples of the current coordinate
    iters,        \* history: completed loop iterations
    reports,      \* history: the k of every report Status::Periodic printed
    accepted, u,  \* history: what APF::accept returned last, and the sample it drew
    failedAt      \* history: the index in calls of the call that returned an error, or 0

vars == << self, pc, p, f, best_p, best_f, t, k, diff, neighbour_p, neighbour_f,
           new_p, dim, s, result, evaluated, calls, draws, redraws, iters, reports,
           accepted, u, failedAt >>

----------------------------------------------------------------------------
(* Bounds of the model *)

\* iterations a run may start (the loop itself has no cap)
MaxK == 3
\* rejected samples per coordinate (the rejection loop itself has no cap)
MaxRedraws == 2
\* samples of the normal distribution are drawn from 0..MaxCoord
MaxCoord == 3

\* What a variable of findmin holds while it is not in scope: a value of its type that
\* no step reads
NoInt == 0 - 1000
NoPoint == << >>
NoTemp == [n |-> 0, d |-> 0, lg |-> 2]
NoSample == [ln |-> [n |-> 0, d |-> 0, lg |-> 2]]
NoResult == << >>

\* Result<T>: Ok(v), or the error
Ok(v) == [ok |-> TRUE, v |-> v]
Err == [ok |-> FALSE, v |-> << >>]

----------------------------------------------------------------------------
(* Exact arithmetic *)

RECURSIVE Pow(_, _)
Pow(b, e) == IF e = 0 THEN 1 ELSE b * Pow(b, e - 1)

\* x * ln a > y * ln b, for integers x, y and integers a, b >= 2
LogGt(x, a, y, b) ==
    IF a = b THEN x > y
    ELSE IF x >= 0 /\ y >= 0 THEN Pow(a, x) > Pow(b, y)
    ELSE IF x <= 0 /\ y <= 0 THEN Pow(b, -y) > Pow(a, -x)
    ELSE x > 0

\* the floating-point number n/d
Rat(n, d) == [n |-> n, d |-> d, lg |-> 2]

\* a > b for two temperatures
TGt(a, b) == LogGt(a.n * b.d, b.lg, b.n * a.d, a.lg)

NegInf == [n |-> -1, d |-> 0, lg |-> 2]

\* -diff / t for an integer diff > 0: the real (n/d) * ln lg / ln 2, or -inf for t = +0
NegDiv(df, tt) ==
    IF tt.n = 0 THEN NegInf
    ELSE IF tt.n > 0 THEN [n |-> -df * tt.d, d |-> tt.n, lg |-> tt.lg]
    ELSE [n |-> df * tt.d, d |-> -tt.n, lg |-> tt.lg]

\* x < y for two such reals (or -inf)
RealLt(x, y) ==
    IF y.d = 0 THEN FALSE
    ELSE IF x.d = 0 THEN TRUE
    ELSE LogGt(y.n * x.d, y.lg, x.n * y.d, x.lg)

\* F::exp, F::one, < and F::min on non-negative reals, each kept as [ln |-> its
\* natural logarithm] (ln 0 = -inf)
FExp(x) == [ln |-> x]
FOne == [ln |-> [n |-> 0, d |-> 1, lg |-> 2]]
FLt(x, y) == RealLt(x.ln, y.ln)
FMin(x, y) == IF FLt(y, x) THEN y ELSE x

\* the sample exp(-qn/qd) of the uniform distribution on [0, 1), qn/qd > 0
USample(qn, qd) == [ln |-> [n |-> -qn, d |-> qd, lg |-> 2]]

----------------------------------------------------------------------------
(* utils::cast: F::from fails for a number the float type F cannot hold; fmax is the *)
(* largest such number of the type chosen for F                                     *)

cast(x) == IF x <= self.fmax /\ -self.fmax <= x THEN Ok(x) ELSE Err

(* Range::contains of a half-open interval *)
contains(r, x) == r.start <= x /\ x < r.end

----------------------------------------------------------------------------
(* Schedule::cool: the results the call may have, one for a built-in schedule *)

\* what a custom schedule may return
CustomTemps == << Ok(Rat(2, 1)), Ok(Rat(1, 1)), Err >>

\* cool with the temperature left as it is
coolNot(schedule, kk, tt, tt_0) == << Ok(tt) >>

cool(schedule, kk, tt, tt_0) ==
    CASE schedule.kind = "Logarithmic" ->
           IF ~cast(kk + 1).ok THEN << Err >>
           ELSE << Ok([n |-> tt_0.n, d |-> tt_0.d, lg |-> cast(kk + 1).v]) >>
      [] schedule.kind = "Exponential" ->
           << Ok([n |-> schedule.gamma.n * tt.n, d |-> schedule.gamma.d * tt.d, lg |-> tt.lg]) >>
      [] schedule.kind = "Fast" ->
           IF ~cast(kk).ok THEN << Err >>
           ELSE << Ok([n |-> tt_0.n, d |-> tt_0.d * cast(kk).v, lg |-> 2]) >>
      [] schedule.kind = "Custom" -> CustomTemps

----------------------------------------------------------------------------
(* APF::accept (Metropolis), given the sample that uni.sample(rng) returns *)

\* Metropolis with the sign of the exponent lost
MetropolisPlus(df, tt, sample) ==
    df <= 0 \/ FLt(sample, FMin(FExp(NegDiv(-df, tt)), FOne))

Metropolis(df, tt, sample) ==
    df <= 0 \/ FLt(sample, FMin(FExp(NegDiv(df, tt)), FOne))

\* MetropolisDraws with the sample drawn before the test of diff
MetropolisDrawsAlways(df) == TRUE

\* whether Metropolis draws from rng: || does not evaluate its right operand
\* when the left one holds
MetropolisDraws(df) == ~(df <= 0)

----------------------------------------------------------------------------
(* The objective function, the caller's closure *)

Abs(x) == IF x < 0 THEN -x ELSE x

Objective(fn, pt) ==
    IF fn = "absFail" /\ pt[1] + pt[2] = 3 THEN Err
    ELSE Ok(Abs(pt[1] - pt[2]))

----------------------------------------------------------------------------
(* Configurations: the fields of SA, and the float type F *)

bounds == << [start |-> 0, end |-> 2], [start |-> 1, end |-> 3] >>
N == Len(bounds)

Draws == 0 .. MaxCoord
USamples == { USample(1, 1), USample(3, 1) }
\* what a custom neighbour method may return
CustomPoints == << Ok(<< 1, 1 >>), Ok(<< 3, 0 >>), Err >>

Schedules ==
    { [kind |-> "Logarithmic", gamma |-> NoTemp], [kind |-> "Exponential", gamma |-> Rat(1, 2)],
      [kind |-> "Fast", gamma |-> NoTemp], [kind |-> "Custom", gamma |-> NoTemp] }
Neighbours ==
    { [kind |-> "Normal", sdOk |-> TRUE], [kind |-> "Normal", sdOk |-> FALSE],
      [kind |-> "Custom", sdOk |-> TRUE] }
Statuses ==
    { [kind |-> "None", nk |-> 0], [kind |-> "Periodic", nk |-> 0],
      [kind |-> "Periodic", nk |-> 2], [kind |-> "Custom", nk |-> 0] }

Configs ==
    [ f : { "abs", "absFail" },
      p_0 : { << 0, 1 >>, << 3, 0 >> },
      t_0 : { Rat(0, 1), Rat(1, 1), Rat(2, 1) },
      t_min : { Rat(1, 1) },
      bounds : { bounds },
      apf : { "Metropolis", "Custom" },
      neighbour : Neighbours,
      schedule : Schedules,
      status : Statuses,
      fmax : { 1, 9 } ]

Init ==
    /\ self \in Configs
    /\ pc = "start"
    /\ p = NoPoint /\ f = NoInt /\ best_p = NoPoint /\ best_f = NoInt
    /\ t = NoTemp /\ k = NoInt /\ diff = NoInt
    /\ neighbour_p = NoPoint /\ neighbour_f = NoInt
    /\ new_p = NoPoint /\ dim = NoInt /\ s = NoInt
    /\ result = NoResult
    /\ evaluated = {} /\ calls = << >> /\ draws = << >>
    /\ redraws = 0 /\ iters = 0 /\ reports = {}
    /\ accepted = FALSE /\ u = NoSample /\ failedAt = 0

----------------------------------------------------------------------------
(* SA::findmin *)

\* Try with the error swallowed
TryIgnore(r) == FALSE

\* the ? operator: whether findmin returns early with the error
Try(r) == ~r.ok

Failed(msg) == /\ pc' = "failed"
               /\ result' = << "Err", msg >>

\* a call of the objective or of a strategy (kk = 0: the call takes no k) and
\* whether it returned an error
Call(name, kk) == calls' = Append(calls, [name |-> name, k |-> kk])
Returned(r) == failedAt' = IF r.ok THEN 0 ELSE Len(calls) + 1

\* lines 62-73: the initial point is evaluated and becomes current and best
Start ==
    /\ pc = "start"
    /\ Call("objective", 0)
    /\ LET r == Objective(self.f, self.p_0) IN
       /\ Returned(r)
       /\ IF Try(r)
          THEN /\ Failed("Couldn't evaluate the objective function")
               /\ UNCHANGED << p, f, best_p, best_f, t, k, evaluated >>
          ELSE /\ p' = self.p_0 /\ f' = r.v
               /\ best_p' = self.p_0 /\ best_f' = r.v
               /\ t' = self.t_0 /\ k' = 1
               /\ evaluated' = evaluated \cup { << self.p_0, r.v >> }
               /\ pc' = "loop"
               /\ UNCHANGED result
    /\ UNCHANGED << self, diff, neighbour_p, neighbour_f, new_p, dim, s, draws,
                    redraws, iters, reports, accepted, u >>

\* LoopCond with >= for >
LoopCondGe(tt, tt_min) == ~TGt(tt_min, tt)

\* line 75: the loop condition
LoopCond(tt, tt_min) == TGt(tt, tt_min)

\* lines 75 and 108
Loop ==
    /\ pc = "loop"
    /\ IF LoopCond(t, self.t_min)
       THEN /\ k <= MaxK
            /\ pc' = "neighbour"
            /\ UNCHANGED result
       ELSE /\ pc' = "done"
            /\ result' = << "Ok", best_f, best_p >>
    /\ UNCHANGED << self, p, f, best_p, best_f, t, k, diff, neighbour_p, neighbour_f,
                    new_p, dim, s, evaluated, calls, draws, redraws, iters, reports,
                    accepted, u, failedAt >>

Draw(kind, i, inside) == draws' = Append(draws, [kind |-> kind, dim |-> i, inside |-> inside])

\* neighbour.rs line 90: the custom method returns a point or an error
NeighbourCustom ==
    /\ pc = "neighbour"
    /\ self.neighbour.kind = "Custom"
    /\ Call("neighbour", 0)
    /\ \E i \in 1 .. Len(CustomPoints) :
         LET r == CustomPoints[i] IN
         /\ Returned(r)
         /\ IF Try(r)
            THEN /\ Failed("Couldn't get a neighbor")
                 /\ UNCHANGED neighbour_p
            ELSE /\ neighbour_p' = r.v
                 /\ pc' = "objective"
                 /\ UNCHANGED result
    /\ UNCHANGED << self, p, f, best_p, best_f, t, k, diff, neighbour_f, new_p, dim, s,
                    evaluated, draws, redraws, iters, reports, accepted, u >>

\* neighbour.rs lines 69-72: Normal starts a new point at the first coordinate
NeighbourNormal ==
    /\ pc = "neighbour"
    /\ self.neighbour.kind = "Normal"
    /\ Call("neighbour", 0)
    /\ new_p' = [i \in 1 .. N |-> 0]
    /\ dim' = 1
    /\ pc' = "normal"
    /\ UNCHANGED << self, p, f, best_p, best_f, t, k, diff, neighbour_p, neighbour_f, s,
                    result, evaluated, draws, redraws, iters, reports, accepted, u,
                    failedAt >>

\* neighbour.rs lines 75-76: Normal::new fails for a standard deviation that is not
\* finite
NormalDistribution(c, sdOk) == IF sdOk THEN Ok(c) ELSE Err

\* the call of neighbour has returned an error: the last call made is the failing one
ReturnedInside(r) == failedAt' = IF r.ok THEN 0 ELSE Len(calls)

\* neighbour.rs lines 75-78: the distribution around the coordinate and its first sample
NormalNew ==
    /\ pc = "normal"
    /\ LET d == NormalDistribution(p[dim], self.neighbour.sdOk) IN
       /\ ReturnedInside(d)
       /\ IF Try(d)
          THEN /\ Failed("Couldn't get a neighbor")
               /\ UNCHANGED << s, draws, redraws >>
          ELSE /\ \E x \in Draws :
                    /\ s' = x
                    /\ Draw("normal", dim, contains(self.bounds[dim], x))
               /\ redraws' = 0
               /\ pc' = "while"
               /\ UNCHANGED result
    /\ UNCHANGED << self, p, f, best_p, best_f, t, k, diff, neighbour_p, neighbour_f,
                    new_p, dim, evaluated, calls, iters, reports, accepted, u >>

\* Keep with the upper end of the range included
KeepClosed(r, x) == r.start <= x /\ x <= r.end

\* neighbour.rs line 80: whether the sample is kept
Keep(r, x) == contains(r, x)

\* neighbour.rs lines 80-82: a sample out of the range is drawn again
NormalRedraw ==
    /\ pc = "while"
    /\ ~Keep(self.bounds[dim], s)
    /\ \E x \in Draws :
         /\ contains(self.bounds[dim], x) \/ redraws + 1 < MaxRedraws
         /\ s' = x
         /\ Draw("normal", dim, contains(self.bounds[dim], x))
    /\ redraws' = redraws + 1
    /\ UNCHANGED << self, pc, p, f, best_p, best_f, t, k, diff, neighbour_p, neighbour_f,
                    new_p, dim, result, evaluated, calls, iters, reports, accepted, u,
                    failedAt >>

\* neighbour.rs lines 84-88: the sample is cast and saved as the new coordinate
NormalStore ==
    /\ pc = "while"
    /\ Keep(self.bounds[dim], s)
    /\ LET c == cast(s) IN
       /\ ReturnedInside(c)
       /\ IF Try(c)
          THEN /\ Failed("Couldn't get a neighbor")
               /\ UNCHANGED << new_p, dim, neighbour_p >>
          ELSE /\ IF dim = N
                  THEN /\ neighbour_p' = [new_p EXCEPT ![dim] = c.v]
                       /\ new_p' = NoPoint
                       /\ dim' = NoInt
                       /\ pc' = "objective"
                  ELSE /\ new_p' = [new_p EXCEPT ![dim] = c.v]
                       /\ dim' = dim + 1
                       /\ pc' = "normal"
                       /\ UNCHANGED neighbour_p
               /\ UNCHANGED result
    /\ s' = NoInt
    /\ redraws' = 0
    /\ UNCHANGED << self, p, f, best_p, best_f, t, k, diff, neighbour_f,
                    evaluated, calls, draws, iters, reports, accepted, u >>

\* lines 82-85: the objective at the candidate, and the difference
Evaluate ==
    /\ pc = "objective"
    /\ Call("objective", 0)
    /\ LET r == Objective(self.f, neighbour_p) IN
       /\ Returned(r)
       /\ IF Try(r)
          THEN /\ Failed("Couldn't evaluate the objective function")
               /\ UNCHANGED << neighbour_f, diff, evaluated >>
          ELSE /\ neighbour_f' = r.v
               /\ diff' = r.v - f
               /\ evaluated' = evaluated \cup { << neighbour_p, r.v >> }
               /\ pc' = "apf"
               /\ UNCHANGED result
    /\ UNCHANGED << self, p, f, best_p, best_f, t, k, neighbour_p, new_p, dim, s,
                    draws, redraws, iters, reports, accepted, u >>

\* Best with the comparison turned round
BestWorse(bp, bf, cp, cf) == IF cf > bf THEN << cp, cf >> ELSE << bp, bf >>

\* lines 93-97: the best solution after the candidate cp with value cf
Best(bp, bf, cp, cf) == IF cf < bf THEN << cp, cf >> ELSE << bp, bf >>

\* Decide with the best updated only by an accepted candidate
DecideBestOnAccept(a) ==
    /\ accepted' = a
    /\ IF a
       THEN /\ p' = neighbour_p /\ f' = neighbour_f
            /\ best_p' = Best(best_p, best_f, neighbour_p, neighbour_f)[1]
            /\ best_f' = Best(best_p, best_f, neighbour_p, neighbour_f)[2]
       ELSE UNCHANGED << p, f, best_p, best_f >>
    /\ pc' = "cool"

\* lines 87-97: the candidate is accepted or not, and the best is updated
Decide(a) ==
    /\ accepted' = a
    /\ IF a
       THEN p' = neighbour_p /\ f' = neighbour_f
       ELSE UNCHANGED << p, f >>
    /\ best_p' = Best(best_p, best_f, neighbour_p, neighbour_f)[1]
    /\ best_f' = Best(best_p, best_f, neighbour_p, neighbour_f)[2]
    /\ pc' = "cool"

AcceptMetropolis ==
    /\ pc = "apf"
    /\ self.apf = "Metropolis"
    /\ Call("apf", 0)
    /\ IF MetropolisDraws(diff)
       THEN \E x \in USamples :
              /\ u' = x
              /\ Draw("uniform", 0, TRUE)
              /\ Decide(Metropolis(diff, t, x))
       ELSE /\ UNCHANGED << draws, u >>
            /\ Decide(Metropolis(diff, t, NoSample))
    /\ UNCHANGED << self, t, k, diff, neighbour_p, neighbour_f, new_p, dim, s, result,
                    evaluated, redraws, iters, reports, failedAt >>

\* apf.rs line 56: the custom function answers as it likes
AcceptCustom ==
    /\ pc = "apf"
    /\ self.apf = "Custom"
    /\ Call("apf", 0)
    /\ \E b \in BOOLEAN : Decide(b)
    /\ UNCHANGED << self, t, k, diff, neighbour_p, neighbour_f, new_p, dim, s, result,
                    evaluated, draws, redraws, iters, reports, u, failedAt >>

\* lines 99-102
Cool ==
    /\ pc = "cool"
    /\ Call("schedule", k)
    /\ \E i \in 1 .. Len(cool(self.schedule, k, t, self.t_0)) :
         LET r == cool(self.schedule, k, t, self.t_0)[i] IN
         /\ Returned(r)
         /\ IF Try(r)
            THEN /\ Failed("Couldn't lower the temperature")
                 /\ UNCHANGED t
            ELSE /\ t' = r.v
                 /\ pc' = "status"
                 /\ UNCHANGED result
    /\ draws' = << >> /\ accepted' = FALSE /\ u' = NoSample
    /\ UNCHANGED << self, p, f, best_p, best_f, k, diff, neighbour_p, neighbour_f,
                    new_p, dim, s, evaluated, redraws, iters, reports >>

\* status.rs lines 42-54: "panic" when k % nk divides by zero, "printed" when a
\* report is printed, "silent" when none is, "called" for the custom function
print(status, kk) ==
    CASE status.kind = "None" -> "silent"
      [] status.kind = "Periodic" ->
           IF status.nk = 0 THEN "panic"
           ELSE IF kk % status.nk = 0 THEN "printed" ELSE "silent"
      [] status.kind = "Custom" -> "called"

\* NextK with the increment forgotten
NextKSame(kk) == kk

\* line 106
NextK(kk) == kk + 1

\* lines 104-106
StatusPrint ==
    /\ pc = "status"
    /\ Call("status", k)
    /\ LET r == print(self.status, k) IN
       IF r = "panic"
       THEN /\ pc' = "panicked"
            /\ UNCHANGED << k, iters, reports, diff, neighbour_p, neighbour_f >>
       ELSE /\ reports' = IF r = "printed" THEN reports \cup { k } ELSE reports
            /\ k' = NextK(k)
            /\ iters' = iters + 1
            /\ diff' = NoInt /\ neighbour_p' = NoPoint /\ neighbour_f' = NoInt
            /\ pc' = "loop"
    /\ UNCHANGED << self, p, f, best_p, best_f, t, new_p, dim, s, result, evaluated,
                    draws, redraws, accepted, u, failedAt >>

Next ==
    \/ Start
    \/ Loop
    \/ NeighbourCustom
    \/ NeighbourNormal
    \/ NormalNew
    \/ NormalRedraw
    \/ NormalStore
    \/ Evaluate
    \/ AcceptMetropolis
    \/ AcceptCustom
    \/ Cool
    \/ StatusPrint

Spec == Init /\ [][Next]_vars

\* findmin runs to its end: no step waits for anything
FairSpec == Spec /\ WF_vars(Next)

----------------------------------------------------------------------------
(* Properties *)

InitialValue == Objective(self.f, self.p_0).v

\* the best pair is up to date: the candidate evaluated last has been compared
Settled == pc \notin { "start", "apf" } /\ evaluated # {}

\* C1: whenever the best pair is up to date, it is one of the (point, value) pairs
\* the objective returned, and no evaluated value is lower, accepted or not
C1_BestIsLowestEvaluated ==
    Settled =>
        /\ << best_p, best_f >> \in evaluated
        /\ \A e \in evaluated : best_f <= e[2]

\* a rejected candidate has become the best
C1_Witness ==
    /\ pc = "cool"
    /\ accepted = FALSE
    /\ best_p = neighbour_p /\ best_f = neighbour_f
    /\ p # neighbour_p /\ best_f < f

\* C2: no step raises best_f, and the value returned is not above the objective at the
\* initial point
C2_BestNonIncreasing ==
    [][ /\ pc # "start" => best_f' <= best_f
        /\ pc' = "done" => result'[2] <= InitialValue ]_vars

\* a run has returned a value below the initial one after two iterations
C2_Witness == pc = "done" /\ iters >= 2 /\ result[2] < InitialValue

\* the call expected at place j of a run: the initial objective, then per iteration
\* neighbour, objective, apf, schedule(k), status(k) with k = 1, 2, ...
ExpectedCall(j) ==
    IF j = 1 THEN [name |-> "objective", k |-> 0]
    ELSE LET i == (j - 2) % 5
             it == ((j - 2) \div 5) + 1
         IN CASE i = 0 -> [name |-> "neighbour", k |-> 0]
              [] i = 1 -> [name |-> "objective", k |-> 0]
              [] i = 2 -> [name |-> "apf", k |-> 0]
              [] i = 3 -> [name |-> "schedule", k |-> it]
              [] i = 4 -> [name |-> "status", k |-> it]

\* C3: the calls of a run follow the fixed order, one of each per iteration, with
\* k = 1, 2, ... passed to schedule and status; a completed iteration has made all five
C3_CallOrder ==
    /\ \A j \in 1 .. Len(calls) : calls[j] = ExpectedCall(j)
    /\ pc = "loop" => Len(calls) = 1 + 5 * iters /\ k = iters + 1

\* two iterations have completed
C3_Witness == pc = "loop" /\ iters = 2

\* C4: once a call of the objective, the neighbour method or the schedule has returned
\* an error, findmin has returned an error without a best pair and no call has
\* followed; findmin returns an error for no other reason
C4_FailFast ==
    /\ failedAt # 0 =>
          /\ pc = "failed"
          /\ Len(calls) = failedAt
          /\ calls[failedAt].name \in { "objective", "neighbour", "schedule" }
          /\ Len(result) = 2 /\ result[1] = "Err"
    /\ pc = "failed" => failedAt # 0
    /\ (failedAt = 1) => \A j \in 1 .. Len(calls) : calls[j].name # "neighbour"

\* the schedule has failed in the second iteration
C4_Witness == pc = "failed" /\ calls[Len(calls)].name = "schedule" /\ iters = 1

\* the initial objective evaluation has failed
C4_WitnessInitial == pc = "failed" /\ failedAt = 1

\* a built-in schedule that brings t to t_min or below in finitely many steps
CoolingValid ==
    /\ TGt(self.t_min, Rat(0, 1))
    /\ \/ self.schedule.kind \in { "Fast", "Logarithmic" }
       \/ /\ self.schedule.kind = "Exponential"
          /\ TGt(self.schedule.gamma, Rat(0, 1))
          /\ TGt(Rat(1, 1), self.schedule.gamma)

\* findmin has returned the best pair, or a call has failed
Ended ==
    IF pc = "done" THEN result = << "Ok", best_f, best_p >>
    ELSE pc \in { "failed", "panicked" }

\* C5: with such a schedule, a run in which no call fails ends, returning the best pair
C5_Terminates ==
    CoolingValid =>
        <>Ended

\* such a run has returned after three iterations
C5_Witness == CoolingValid /\ pc = "done" /\ iters = 3

\* u < exp(-diff / t) for the sample u, a diff > 0 and a temperature t > 0:
\* ln u < -diff / t, with ln u = -qn/qd and t = (n/d) * ln 2 / ln lg
BelowExp(sample, df, tt) ==
    LogGt(-sample.ln.n * tt.n, 2, df * tt.d * sample.ln.d, tt.lg)

\* C6: Metropolis accepts every diff <= 0, and a diff > 0 exactly when the sample
\* is below exp(-diff / t)
C6_Metropolis ==
    (pc = "cool" /\ self.apf = "Metropolis") =>
        /\ diff <= 0 => accepted
        /\ diff > 0 => (accepted <=> BelowExp(u, diff, t))

\* a worse candidate has been rejected
C6_Witness ==
    pc = "cool" /\ self.apf = "Metropolis" /\ diff > 0 /\ ~accepted

\* a worse candidate has been accepted
C6_WitnessAccept ==
    pc = "cool" /\ self.apf = "Metropolis" /\ diff > 0 /\ accepted

InBounds(pt) == \A i \in 1 .. N : self.bounds[i].start <= pt[i] /\ pt[i] < self.bounds[i].end

\* C7: the point the Normal method returns has every coordinate in its own range
C7_NeighbourInBounds ==
    (self.neighbour.kind = "Normal" /\ pc \in { "objective", "apf", "cool", "status" })
        => InBounds(neighbour_p)

\* Normal has returned a point from a current point out of the bounds, after
\* a sample was rejected
C7_Witness ==
    /\ self.neighbour.kind = "Normal" /\ pc = "objective"
    /\ ~InBounds(p)
    /\ \E j \in 1 .. Len(draws) : ~draws[j].inside

\* C8: no call of print fails (as claimed)
C8_PrintNeverFails == pc # "panicked"

\* the draws Normal takes for one point: the coordinates in order, each drawn again
\* until a sample is inside its range
NormalDraws(ds) ==
    /\ Len(ds) >= N
    /\ \A j \in 1 .. Len(ds) : ds[j].kind = "normal"
    /\ ds[1].dim = 1
    /\ ds[Len(ds)].dim = N /\ ds[Len(ds)].inside
    /\ \A j \in 1 .. Len(ds) - 1 :
         ds[j + 1].dim = IF ds[j].inside THEN ds[j].dim + 1 ELSE ds[j].dim

Uniforms(ds) == Cardinality({ j \in 1 .. Len(ds) : ds[j].kind = "uniform" })

BuiltIn == self.apf = "Metropolis" /\ self.neighbour.kind = "Normal"

\* C9 as claimed: in every iteration the draws of Normal are followed by exactly one
\* draw for the acceptance check
C9_OneUniformAlways ==
    (pc = "cool" /\ BuiltIn) =>
        /\ Len(draws) >= 1
        /\ NormalDraws(SubSeq(draws, 1, Len(draws) - 1))
        /\ draws[Len(draws)].kind = "uniform"

\* C9 amended: the draws of Normal are followed by exactly one draw for the acceptance
\* check when diff > 0 and by none when diff <= 0
C9_OneUniformIfWorse ==
    (pc = "cool" /\ BuiltIn) =>
        IF diff > 0
        THEN /\ Len(draws) >= 1
             /\ NormalDraws(SubSeq(draws, 1, Len(draws) - 1))
             /\ draws[Len(draws)].kind = "uniform"
        ELSE NormalDraws(draws)

\* an iteration with a rejected sample and diff <= 0 has drawn no uniform sample
C9_Witness ==
    /\ pc = "cool" /\ BuiltIn /\ diff <= 0
    /\ Uniforms(draws) = 0
    /\ \E j \in 1 .. Len(draws) : ~draws[j].inside

\* C10 as claimed: a run that converges has completed at least one iteration
C10_OneIterationAlways == pc = "done" => iters >= 1

\* C10 amended: the test t > t_min comes before every iteration, the first included: a
\* run with t_0 > t_min completes at least one iteration before it converges, a run
\* with t_0 <= t_min none, and returns the initial point and its value
C10_TestBeforeIteration ==
    pc = "done" =>
        IF TGt(self.t_0, self.t_min)
        THEN iters >= 1
        ELSE iters = 0 /\ result = << "Ok", InitialValue, self.p_0 >>

\* a run with t_0 <= t_min has returned without an iteration
C10_Witness == pc = "done" /\ ~TGt(self.t_0, self.t_min) /\ Len(calls) = 1

====
